---------------------------- MODULE Spec2Model ----------------------------
(***************************************************************************)
(* A model of rs485multiSerial.ino: one node running sendData and one node *)
(* running receiveData (polled by loop) on the same half-duplex RS-485     *)
(* bus.  Every node has its own transceiver enable line and its own        *)
(* SoftwareSerial receive queue; a byte written by a node reaches the      *)
(* peer's queue when the peer's transceiver is in receive mode.            *)
(*                                                                         *)
(* Spec, SpecLen and SpecBaud follow one sendData call against a peer that *)
(* polls receiveData again and again; SpecTrip does so from the point      *)
(* where sendData is about to write ACK.  SpecLoop follows the passes of   *)
(* the for loop of loop, one sendData call each, on a bus where no node    *)
(* answers.  SpecEcco is the build with debug = true, both nodes in        *)
(* eccoTest.  SpecVerify is verifyData called on its own.                  *)
(*                                                                         *)
(* C arrays are sequences: the C element a[i] is a[i+1] here.              *)
(* Reads of memory the code never initialised, and the value returned by   *)
(* checkPortHasData on the path that has no return statement, are choices  *)
(* over the values the build can produce.                                  *)
(***************************************************************************)
EXTENDS Integers, Sequences, FiniteSets, TLC

\* ------------------------------------------------------------ constants
SEND_MODE == 1
RECEIVE_MODE == 0
ACK == 6
NAK == 21
END == 119
START == 85
MAXBYTES == 32
BAUDRATE == 57600
\* int sendDelay = 500
sendDelay == 500

dataLength == ((2 * MAXBYTES) + 3) % 256
\* (dataLength*3)*(100000/BAUDRATE) in a build whose BAUDRATE is b
Budget(b) == (dataLength * 3) * (100000 \div b)
sendReceiveTimeout == Budget(BAUDRATE)
\* the baud rates the comment above BAUDRATE lists
BaudRates == {9600, 19200, 38400, 57600, 115200}

\* -------------------------------------------------------------- bounds
\* longest payload of the exchange
MaxLen == 1
\* largest number of bytes the channel alters in one behaviour
MaxNoise == 1
\* the clock is followed for this many ticks in each sendData call
MaxTicks == 3
\* passes of the for loop of loop that are followed
MaxAttempts == 3
\* bytes a node running eccoTest writes
MaxEcho == 3

\* byte values the payloads are drawn from
PayloadVals == {2, 3, 136}
\* values an altered byte can take
NoiseVals == {0, 5}
\* every value of a byte
Byte == 0..255
\* values a read of memory the code never stored to can give
Garbage == Byte

Sender == "sender"
Receiver == "receiver"
Node == {Sender, Receiver}
Peer(n) == IF n = Sender THEN Receiver ELSE Sender

\* -------------------------------------------------------- pure helpers
\* -data[i] in the place of ~data[i]
InverseNegated(b) == (256 - b) % 256

\* byte(~b)
Inverse(b) == 255 - b

\* x & (y != 0) for bytes x, y: C parses  x & y != 0  this way
AndNonZero(x, y) == IF y # 0 THEN x % 2 ELSE 0

SeqsUpTo(S, n) == UNION {[1..k -> S] : k \in 1..n}

\* byte numDataBytes = 3 + (2 * numBytes)
NumDataBytes(numBytes) == (3 + (2 * numBytes)) % 256

\* tempData as sendData builds it from data[0..numBytes-1]
BuildFrame(data, numBytes) ==
  [k \in 1..NumDataBytes(numBytes) |->
     IF k = 1 THEN START
     ELSE IF k >= NumDataBytes(numBytes) - 1 THEN END
     ELSE IF k % 2 = 0 THEN data[k \div 2]
     ELSE Inverse(data[(k - 1) \div 2])]

\* verifyData(data1, data2, numDataBytes)
verifyData(data1, data2, numDataBytes) ==
  IF ~(data1[1] = START /\ data2[1] = START) THEN FALSE
  ELSE IF ~(data1[numDataBytes] = END /\ data2[numDataBytes] = END) THEN FALSE
  ELSE ~ \E i \in 1..(numDataBytes - 2) :
            /\ i % 2 = 1
            /\ AndNonZero(data1[i + 1], data1[i + 2]) # 0
            /\ AndNonZero(data2[i + 1], data2[i + 2]) # 0
            /\ data1[i + 1] # data2[i + 1]

\* the two END bytes that stop readBuffer's inner loop
EndSeen(b, c) == c > 1 /\ b[c - 1] = END /\ b[c] = END

\* the framing checks without the one of the last two bytes
FramingCountStartOnly(b, c) == IF b[1] # START THEN 0 ELSE c

\* readBuffer's return value once the inner loop has stopped with c bytes in b
FramingCount(b, c) ==
  IF b[1] # START THEN 0
  ELSE IF b[c] # END \/ b[c - 1] # END THEN 0
  ELSE c

\* the value of checkPortHasData: true when a byte is available, and no
\* return statement otherwise
checkPortHasData(q) == IF q # <<>> THEN {TRUE} ELSE BOOLEAN

\* whether a call that gave has, with the bytes q waiting, left the function
\* without a return statement and was taken as true
FellOff(q, has) == has /\ q = <<>>

\* ---------------------------------------------------------------- state
VARIABLES
  payload,        \* data argument of sendData
  numBytes,       \* numBytes argument of sendData
  maxDataLength,  \* maxDataLength argument of receiveData
  baud,           \* BAUDRATE of the build
  attempt,        \* count of the for loop of loop
  pc,             \* position of each node in its call
  enable,         \* PORTx_ENABLE line of each node
  rx,             \* bytes received and not yet read, per node
  written,        \* bytes each node has written to its port, in order
  switched,       \* whether the node has put its line in send mode
  heard,          \* number of bytes that have arrived at the node
  sendBuf,        \* array handed to sendBuffer / byte handed to sendByte
  idx,            \* loop index of sendBuffer
  buf,            \* bytes readBuffer has stored (testData / tempData)
  count,          \* count of readBuffer, then of its caller
  overrun,        \* readBuffer stored at index maxDataLength
  timeOut,        \* start of the node's current wait
  result,         \* return value, read when pc = "ret"
  data,           \* the array receiveData fills
  now,            \* millis()
  noise,          \* bytes altered so far
  dropped,        \* a byte was written while the peer could not receive
  fellOff         \* checkPortHasData gave true with no byte available

vars == <<payload, numBytes, maxDataLength, baud, attempt, pc, enable, rx, written, switched,
          heard, sendBuf, idx, buf, count, overrun, timeOut, result, data,
          now, noise, dropped, fellOff>>

ioVars == <<rx, written, heard, noise, dropped>>
argVars == <<payload, numBytes, maxDataLength, baud, attempt>>

\* buffer limit of the node's readBuffer call
BufLimit(n) == IF n = Sender THEN NumDataBytes(numBytes) ELSE maxDataLength

\* timeOut + sendReceiveTimeout > millis()
InTime(n) == timeOut[n] + Budget(baud) > now

\* the clock is observed in steps of about half the timeout budget of the
\* build
TickStep == IF Budget(baud) > 0 THEN (Budget(baud) + 1) \div 2 ELSE 1

\* the time up to which the clock is followed: MaxTicks steps in every pass
\* of the for loop, and the delay(sendDelay) between two passes
Horizon == (attempt * (sendDelay + (MaxTicks * TickStep))) + (MaxTicks * TickStep)

Payloads == SeqsUpTo(PayloadVals, MaxLen)
\* a data array one byte longer than MAXBYTES
Oversize == [k \in 1..(MAXBYTES + 1) |-> 2]

\* the state when sendData(payload, numBytes, ..) and receiveData(data,
\* maxDataLength, ..) are about to be called, after setup, for a data array
\* drawn from P and a maxDataLength drawn from M, in a build whose BAUDRATE
\* is drawn from B
InitArgs(P, M, B) ==
  /\ payload \in P
  /\ numBytes \in IF payload = <<>> THEN {0, -1} ELSE {Len(payload)}
  /\ maxDataLength \in M
  /\ baud \in B
  /\ attempt = 0
  /\ pc = [n \in Node |-> "call"]
  /\ enable = [n \in Node |-> RECEIVE_MODE]
  /\ rx = [n \in Node |-> <<>>]
  /\ written = [n \in Node |-> <<>>]
  /\ switched = [n \in Node |-> FALSE]
  /\ heard = [n \in Node |-> 0]
  /\ sendBuf = [n \in Node |-> <<>>]
  /\ idx = [n \in Node |-> 0]
  /\ buf = [n \in Node |-> <<>>]
  /\ count = [n \in Node |-> 0]
  /\ overrun = [n \in Node |-> FALSE]
  /\ timeOut = [n \in Node |-> 0]
  /\ result = [n \in Node |-> FALSE]
  /\ data = [k \in 1..maxDataLength |-> 0]
  /\ now = 0
  /\ noise = 0
  /\ dropped = FALSE
  /\ fellOff = FALSE

\* the same in the build of the source, BAUDRATE 57600
InitWith(P, M) == InitArgs(P, M, {BAUDRATE})

\* loop hands receiveData finalData and dataLength
FrameRoom == {dataLength}

Init == InitWith(Payloads \cup {<<>>}, FrameRoom)

\* the calls whose numBytes is at or beyond the ends of 1..MAXBYTES
InitLen == InitWith({<<>>, <<3>>, Oversize}, FrameRoom)

\* -------------------------------------------------------------- the bus
\* what the peer's port receives when the node writes byte b
Arrivals(b) == {b} \cup (IF noise < MaxNoise THEN NoiseVals \ {b} ELSE {})

\* rsPort.write(b) by node n, the byte arriving as a
Transmit(n, b, a) ==
  /\ written' = [written EXCEPT ![n] = Append(@, b)]
  /\ IF enable[Peer(n)] = RECEIVE_MODE
       THEN /\ rx' = [rx EXCEPT ![Peer(n)] = Append(@, a)]
            /\ heard' = [heard EXCEPT ![Peer(n)] = @ + 1]
            /\ noise' = IF a = b THEN noise ELSE noise + 1
            /\ UNCHANGED dropped
       ELSE /\ a = b
            /\ dropped' = TRUE
            /\ UNCHANGED <<rx, heard, noise>>

\* ------------------------------------------------------------ sendBuffer
\* digitalWrite(PORTx_ENABLE, SEND_MODE) of sendBuffer(b, ..), at its entry
sendBufferStart(n, b) ==
  /\ enable' = [enable EXCEPT ![n] = SEND_MODE]
  /\ switched' = [switched EXCEPT ![n] = TRUE]
  /\ sendBuf' = [sendBuf EXCEPT ![n] = b]
  /\ idx' = [idx EXCEPT ![n] = 0]
  /\ pc' = [pc EXCEPT ![n] = "sendBuffer"]

\* digitalWrite(PORTx_ENABLE, RECEIVE_MODE) of checkPortHasData
Listen(n) == enable' = [enable EXCEPT ![n] = RECEIVE_MODE]

\* the line left in send mode
ReleaseForgotten(n) == UNCHANGED enable

\* digitalWrite(PORTx_ENABLE, RECEIVE_MODE) at the end of sendBuffer and of
\* sendByte
Release(n) == enable' = [enable EXCEPT ![n] = RECEIVE_MODE]

\* one pass of sendBuffer's loop: rsPort.write(data[i])
sendBufferWrite(n) ==
  /\ pc[n] = "sendBuffer"
  /\ idx[n] < Len(sendBuf[n])
  /\ \E a \in Arrivals(sendBuf[n][idx[n] + 1]) :
        Transmit(n, sendBuf[n][idx[n] + 1], a)
  /\ idx' = [idx EXCEPT ![n] = @ + 1]
  /\ UNCHANGED <<argVars, pc, enable, switched, sendBuf, buf, count, overrun,
                 timeOut, result, data, now, fellOff>>

\* the end of sendBuffer: flush, receive mode.  sendData notes millis() right
\* after it; receiveData first prints and waits in delay(1)
sendBufferEnd(n) ==
  /\ pc[n] = "sendBuffer"
  /\ idx[n] = Len(sendBuf[n])
  /\ Release(n)
  /\ timeOut' = IF n = Sender THEN [timeOut EXCEPT ![n] = now] ELSE timeOut
  /\ pc' = [pc EXCEPT ![n] = IF n = Sender THEN "awaitEcho" ELSE "delay"]
  /\ UNCHANGED <<argVars, ioVars, switched, sendBuf, idx, buf, count, overrun,
                 result, data, now, fellOff>>

\* -------------------------------------------------------------- sendByte
\* digitalWrite(PORTx_ENABLE, SEND_MODE) of sendByte(temp, ..), at its entry
sendByteStart(n, temp) ==
  /\ enable' = [enable EXCEPT ![n] = SEND_MODE]
  /\ switched' = [switched EXCEPT ![n] = TRUE]
  /\ sendBuf' = [sendBuf EXCEPT ![n] = <<temp>>]
  /\ pc' = [pc EXCEPT ![n] = "sendByte"]

\* testData when readBuffer has stored the bytes b in it: fill is what the
\* stack held in the elements readBuffer did not store
TestData(b, fill) ==
  [k \in 1..NumDataBytes(numBytes) |-> IF k <= Len(b) THEN b[k] ELSE fill[k]]

\* the values  count > 0 && verifyData(tempData, testData, numDataBytes)
\* can take
Verified(b, c) ==
  IF c > 0
    THEN {verifyData(BuildFrame(payload, numBytes), TestData(b, fill),
                     NumDataBytes(numBytes)) :
            fill \in [(Len(b) + 1)..NumDataBytes(numBytes) -> Garbage]}
    ELSE {FALSE}

\* ACK whatever the comparison gave
ReplyAck(ok) == ACK

\* the byte sendData hands to sendByte: ACK when the condition of line 221
\* is true, NAK otherwise
Reply(ok) == IF ok THEN ACK ELSE NAK

\* what sendData does with the count readBuffer returned
sendDataVerify(b, c) ==
  \E ok \in Verified(b, c) : sendByteStart(Sender, Reply(ok))

\* an echo that leaves out the last byte read
EchoedShort(b, c) == SubSeq(b, 1, c - 1)

\* the bytes sendBuffer(tempData, count, port) is handed by receiveData
Echoed(b, c) == SubSeq(b, 1, c)

\* what receiveData does with the count readBuffer returned; the line is as
\* the checkPortHasData call before the reads left it
receiveDataEcho(b, c) ==
  IF c > 0
    THEN /\ sendBufferStart(Receiver, Echoed(b, c))
         /\ UNCHANGED result
    ELSE /\ pc' = [pc EXCEPT ![Receiver] = "ret"]
         /\ result' = [result EXCEPT ![Receiver] = FALSE]
         /\ Listen(Receiver)
         /\ UNCHANGED <<switched, sendBuf, idx>>

\* the caller's statements after readBuffer has returned c with b stored
afterReadBuffer(n, b, c) ==
  /\ buf' = [buf EXCEPT ![n] = b]
  /\ count' = [count EXCEPT ![n] = c]
  /\ IF n = Sender
       THEN sendDataVerify(b, c) /\ UNCHANGED <<idx, result>>
       ELSE receiveDataEcho(b, c)

\* ------------------------------------------------------------ readBuffer
\* the entry of readBuffer: timeOut, count = 0, the loop test and
\* checkPortHasData, whose value is has
readBufferEnter(n, has) ==
  IF Budget(baud) > 0 /\ has
    THEN /\ pc' = [pc EXCEPT ![n] = "readBuffer"]
         /\ buf' = [buf EXCEPT ![n] = <<>>]
         /\ count' = [count EXCEPT ![n] = 0]
         /\ Listen(n)
         /\ UNCHANGED <<switched, sendBuf, idx, result>>
    ELSE afterReadBuffer(n, <<>>, 0)

\* one pass of readBuffer's inner loop with a byte available; the pass that
\* ends the loop goes on to the framing checks and the return
readBufferRead(n) ==
  /\ pc[n] = "readBuffer"
  /\ count[n] < BufLimit(n) + 1
  /\ rx[n] # <<>>
  /\ LET b == Append(buf[n], Head(rx[n]))
         c == count[n] + 1
     IN  /\ rx' = [rx EXCEPT ![n] = Tail(@)]
         /\ overrun' = [overrun EXCEPT ![n] = @ \/ count[n] >= BufLimit(n)]
         /\ IF EndSeen(b, c) \/ ~(c < BufLimit(n) + 1)
              THEN afterReadBuffer(n, b, FramingCount(b, c))
              ELSE /\ buf' = [buf EXCEPT ![n] = b]
                   /\ count' = [count EXCEPT ![n] = c]
                   /\ UNCHANGED <<pc, enable, switched, sendBuf, idx, result>>
  /\ UNCHANGED <<argVars, written, heard, noise, dropped, timeOut, data, now,
                 fellOff>>

\* -------------------------------------------------------------- sendData
\* sendData up to the first statement of sendBuffer
sendDataCall ==
  /\ pc[Sender] = "call"
  /\ IF numBytes <= 0
       THEN /\ pc' = [pc EXCEPT ![Sender] = "ret"]
            /\ result' = [result EXCEPT ![Sender] = FALSE]
            /\ UNCHANGED <<enable, switched, sendBuf, idx>>
       ELSE /\ sendBufferStart(Sender, BuildFrame(payload, numBytes))
            /\ UNCHANGED result
  /\ UNCHANGED <<argVars, ioVars, buf, count, overrun, timeOut, data, now,
                 fellOff>>

\* one pass of the loop that waits for the echo
sendDataPoll ==
  /\ pc[Sender] = "awaitEcho"
  /\ IF ~InTime(Sender)
       THEN /\ pc' = [pc EXCEPT ![Sender] = "ret"]
            /\ result' = [result EXCEPT ![Sender] = FALSE]
            /\ UNCHANGED <<enable, switched, sendBuf, idx, buf, count, fellOff>>
       ELSE \E has \in checkPortHasData(rx[Sender]) :
              /\ fellOff' = (fellOff \/ FellOff(rx[Sender], has))
              /\ IF has
                   THEN \E has2 \in checkPortHasData(rx[Sender]) :
                           readBufferEnter(Sender, has2)
                   ELSE /\ Listen(Sender)
                        /\ UNCHANGED <<pc, switched, sendBuf, idx, buf, count,
                                       result>>
  /\ UNCHANGED <<argVars, ioVars, overrun, timeOut, data, now>>

\* the second half of sendByte(ACK or NAK); after NAK sendData returns false,
\* after ACK it waits in delayMicroseconds(readWriteDelay)
sendByteWrite ==
  /\ pc[Sender] = "sendByte"
  /\ \E a \in Arrivals(sendBuf[Sender][1]) :
        Transmit(Sender, sendBuf[Sender][1], a)
  /\ Release(Sender)
  /\ IF sendBuf[Sender][1] = ACK
       THEN /\ pc' = [pc EXCEPT ![Sender] = "ackDelay"]
            /\ UNCHANGED result
       ELSE /\ pc' = [pc EXCEPT ![Sender] = "ret"]
            /\ result' = [result EXCEPT ![Sender] = FALSE]
  /\ UNCHANGED <<argVars, switched, sendBuf, idx, buf, count, overrun,
                 timeOut, data, now, fellOff>>

\* the end of the wait after ACK: return true
sendDataReturn ==
  /\ pc[Sender] = "ackDelay"
  /\ pc' = [pc EXCEPT ![Sender] = "ret"]
  /\ result' = [result EXCEPT ![Sender] = TRUE]
  /\ UNCHANGED <<argVars, ioVars, enable, switched, sendBuf, idx, buf, count,
                 overrun, timeOut, data, now, fellOff>>

\* ----------------------------------------------------------- receiveData
\* receiveData's poll at entry
receiveDataCall ==
  /\ pc[Receiver] = "call"
  /\ \E has \in checkPortHasData(rx[Receiver]) :
       /\ fellOff' = (fellOff \/ FellOff(rx[Receiver], has))
       /\ IF has
            THEN \E has2 \in checkPortHasData(rx[Receiver]) :
                    readBufferEnter(Receiver, has2)
            ELSE /\ pc' = [pc EXCEPT ![Receiver] = "ret"]
                 /\ result' = [result EXCEPT ![Receiver] = FALSE]
                 /\ Listen(Receiver)
                 /\ UNCHANGED <<switched, sendBuf, idx, buf, count>>
  /\ UNCHANGED <<argVars, ioVars, overrun, timeOut, data, now>>

\* readByte(port)
readByte(q) == IF q # <<>> THEN Head(q) ELSE 0

\* C indices of tempData that the copy loop reads and readBuffer never stored
Unstored(c) == {j \in c..((2 * (c - 3)) + 1) : j % 2 = 1}

\* the copy loop that line 281 keeps in a comment: data[i] = tempData[i]
ExtractRaw(d, b, c, fill) ==
  [k \in 1..Len(d) |-> IF k <= c THEN b[k] ELSE d[k]]

\* data after  data[0] = (count - 2) / 2  and the copy loop, tempData holding
\* the c bytes b and fill beyond them
Extract(d, b, c, fill) ==
  [k \in 1..Len(d) |->
     IF k = 1 THEN (c - 2) \div 2
     ELSE IF k - 2 < c - 2
            THEN (IF (2 * (k - 2)) + 1 < c THEN b[(2 * (k - 2)) + 2]
                  ELSE fill[(2 * (k - 2)) + 1])
            ELSE d[k]]

\* every response but NAK taken as an acknowledgement
AcceptedUnlessNak(response) == response # NAK

\* response == ACK, the test that leads to receiveData's return of true
Accepted(response) == response = ACK

\* the end of delay(1) after the echo: long timeout = millis()
receiveDataMark ==
  /\ pc[Receiver] = "delay"
  /\ timeOut' = [timeOut EXCEPT ![Receiver] = now]
  /\ pc' = [pc EXCEPT ![Receiver] = "awaitResponse"]
  /\ UNCHANGED <<argVars, ioVars, enable, switched, sendBuf, idx, buf, count,
                 overrun, result, data, now, fellOff>>

\* one pass of the loop that waits for the response
receiveDataResponse ==
  /\ pc[Receiver] = "awaitResponse"
  /\ IF ~InTime(Receiver)
       THEN /\ pc' = [pc EXCEPT ![Receiver] = "ret"]
            /\ result' = [result EXCEPT ![Receiver] = FALSE]
            /\ UNCHANGED <<rx, data, fellOff, enable>>
       ELSE \E has \in checkPortHasData(rx[Receiver]) :
              LET response == readByte(rx[Receiver]) IN
              /\ fellOff' = (fellOff \/ FellOff(rx[Receiver], has))
              /\ Listen(Receiver)
              /\ IF ~has
                THEN UNCHANGED <<pc, result, rx, data>>
                ELSE /\ rx' = [rx EXCEPT ![Receiver] =
                                 IF @ # <<>> THEN Tail(@) ELSE @]
                     /\ IF response = 0
                          THEN UNCHANGED <<pc, result, data>>
                          ELSE /\ pc' = [pc EXCEPT ![Receiver] = "ret"]
                               /\ result' = [result EXCEPT ![Receiver] =
                                               Accepted(response)]
                               /\ IF Accepted(response)
                                    THEN \E fill \in [Unstored(count[Receiver])
                                                        -> Garbage] :
                                           data' = Extract(data, buf[Receiver],
                                                     count[Receiver], fill)
                                    ELSE UNCHANGED data
  /\ UNCHANGED <<argVars, written, heard, noise, dropped, switched, sendBuf,
                 idx, buf, count, overrun, timeOut, now>>

\* loop: while (!receiveData(finalData, dataLength, PORT1)) {}, and, after a
\* return of true, the next pass of loop
loopRepoll ==
  /\ pc[Receiver] = "ret"
  /\ pc' = [pc EXCEPT ![Receiver] = "call"]
  /\ buf' = [buf EXCEPT ![Receiver] = <<>>]
  /\ count' = [count EXCEPT ![Receiver] = 0]
  /\ sendBuf' = [sendBuf EXCEPT ![Receiver] = <<>>]
  /\ idx' = [idx EXCEPT ![Receiver] = 0]
  /\ UNCHANGED <<argVars, ioVars, enable, switched, overrun, timeOut, result,
                 data, now, fellOff>>

\* finalData[0..qty-1] in the pass of the for loop whose count is c:
\* finalData[i] = count + i, qty = 1 + count % MAXBYTES
LoopData(c) == [i \in 1..(1 + (c % MAXBYTES)) |-> ((c + i) - 1) % 256]

\* loop after sendData has returned: delay(sendDelay), the next pass of the
\* for loop and its data array; the bytes written and the use of the line are
\* followed per call
loopSend ==
  /\ pc[Sender] = "ret"
  /\ attempt < MaxAttempts - 1
  /\ attempt' = attempt + 1
  /\ payload' = LoopData(attempt')
  /\ numBytes' = Len(payload')
  /\ pc' = [pc EXCEPT ![Sender] = "call"]
  /\ written' = [written EXCEPT ![Sender] = <<>>]
  /\ switched' = [switched EXCEPT ![Sender] = FALSE]
  /\ sendBuf' = [sendBuf EXCEPT ![Sender] = <<>>]
  /\ idx' = [idx EXCEPT ![Sender] = 0]
  /\ buf' = [buf EXCEPT ![Sender] = <<>>]
  /\ count' = [count EXCEPT ![Sender] = 0]
  /\ result' = [result EXCEPT ![Sender] = FALSE]
  /\ now' = now + sendDelay
  /\ UNCHANGED <<maxDataLength, baud, enable, rx, heard, noise, dropped,
                 overrun, timeOut, data, fellOff>>

\* millis() moves on.  The code compares it with a deadline only in the loop
\* of sendData that waits for the echo and in the loop of receiveData that
\* waits for the response (readBuffer's loop leaves in its first pass), and
\* receiveData reads it after delay(1), so the clock is followed while a node
\* is in one of the three.
Tick ==
  /\ now < Horizon
  /\ \E n \in Node : pc[n] \in {"awaitEcho", "delay", "awaitResponse"}
  /\ now' = now + TickStep
  /\ UNCHANGED <<argVars, ioVars, pc, enable, switched, sendBuf, idx, buf,
                 count, overrun, timeOut, result, data, fellOff>>

Next ==
  \/ sendDataCall
  \/ sendDataPoll
  \/ sendByteWrite
  \/ sendDataReturn
  \/ receiveDataCall
  \/ receiveDataMark
  \/ receiveDataResponse
  \/ loopRepoll
  \/ \E n \in Node : sendBufferWrite(n)
  \/ \E n \in Node : sendBufferEnd(n)
  \/ \E n \in Node : readBufferRead(n)
  \/ Tick

Spec == Init /\ [][Next]_vars

\* the slave's loop on a bus where no node answers: the passes of the for
\* loop, one sendData call each
InitLoop == InitWith({LoopData(0)}, FrameRoom)

NextLoop ==
  \/ sendDataCall
  \/ sendBufferWrite(Sender)
  \/ sendBufferEnd(Sender)
  \/ sendDataPoll
  \/ sendByteWrite
  \/ loopSend
  \/ Tick

SpecLoop == InitLoop /\ [][NextLoop]_vars

\* ------------------------------------------------------------- eccoTest
\* the build with debug = true: loop calls eccoTest(PORT1), which does not
\* return.  pc is "ecco" while sendMode is false and "eccoSend" while it is
\* true; sendBuf holds tempCount
InitEcco ==
  /\ payload = <<>>
  /\ numBytes = 0
  /\ maxDataLength \in FrameRoom
  /\ baud = BAUDRATE
  /\ attempt = 0
  /\ pc = [n \in Node |-> "ecco"]
  /\ enable = [n \in Node |-> RECEIVE_MODE]
  /\ rx = [n \in Node |-> <<>>]
  /\ written = [n \in Node |-> <<>>]
  /\ switched = [n \in Node |-> FALSE]
  /\ heard = [n \in Node |-> 0]
  /\ sendBuf = [n \in Node |-> <<0>>]
  /\ idx = [n \in Node |-> 0]
  /\ buf = [n \in Node |-> <<>>]
  /\ count = [n \in Node |-> 0]
  /\ overrun = [n \in Node |-> FALSE]
  /\ timeOut = [n \in Node |-> 0]
  /\ result = [n \in Node |-> FALSE]
  /\ data = [k \in 1..maxDataLength |-> 0]
  /\ now = 0
  /\ noise = 0
  /\ dropped = FALSE
  /\ fellOff = FALSE

\* a pass of eccoTest's loop with sendMode false: checkPortHasData, and on
\* true tempCount = readByte(port), sendMode = true
eccoTestRead(n) ==
  /\ pc[n] = "ecco"
  /\ \E has \in checkPortHasData(rx[n]) :
       /\ fellOff' = (fellOff \/ FellOff(rx[n], has))
       /\ Listen(n)
       /\ IF has
            THEN /\ sendBuf' = [sendBuf EXCEPT ![n] = <<readByte(rx[n])>>]
                 /\ rx' = [rx EXCEPT ![n] = IF @ # <<>> THEN Tail(@) ELSE @]
                 /\ pc' = [pc EXCEPT ![n] = "eccoSend"]
            ELSE UNCHANGED <<sendBuf, rx, pc>>
  /\ UNCHANGED <<argVars, written, heard, noise, dropped, switched, idx, buf,
                 count, overrun, timeOut, result, data, now>>

\* a pass with sendMode true: checkPortHasData, then the first half of
\* sendByte(++tempCount, port)
eccoTestSend(n) ==
  /\ pc[n] = "eccoSend"
  /\ Len(written[n]) < MaxEcho
  /\ \E has \in checkPortHasData(rx[n]) :
       fellOff' = (fellOff \/ FellOff(rx[n], has))
  /\ enable' = [enable EXCEPT ![n] = SEND_MODE]
  /\ switched' = [switched EXCEPT ![n] = TRUE]
  /\ sendBuf' = [sendBuf EXCEPT ![n] = <<(sendBuf[n][1] + 1) % 256>>]
  /\ pc' = [pc EXCEPT ![n] = "eccoByte"]
  /\ UNCHANGED <<argVars, ioVars, idx, buf, count, overrun, timeOut, result,
                 data, now>>

\* the second half of sendByte, and sendMode = false
eccoTestWrite(n) ==
  /\ pc[n] = "eccoByte"
  /\ \E a \in Arrivals(sendBuf[n][1]) : Transmit(n, sendBuf[n][1], a)
  /\ Release(n)
  /\ pc' = [pc EXCEPT ![n] = "ecco"]
  /\ UNCHANGED <<argVars, switched, sendBuf, idx, buf, count, overrun,
                 timeOut, result, data, now, fellOff>>

NextEcco ==
  \/ \E n \in Node : eccoTestRead(n)
  \/ \E n \in Node : eccoTestSend(n)
  \/ \E n \in Node : eccoTestWrite(n)

SpecEcco == InitEcco /\ [][NextEcco]_vars

SpecLen == InitLen /\ [][Next]_vars

\* one exchange in the build of every listed baud rate
InitBaud == InitArgs({<<3>>, <<136>>}, FrameRoom, BaudRates)

SpecBaud == InitBaud /\ [][Next]_vars

\* the exchange for data arrays of one and of two bytes at the point where
\* nothing has gone wrong: sendData has written its frame, receiveData has
\* accumulated and echoed it, put its line in receive mode, waited and noted
\* millis() (line 269); sendData has read the echo whole, found the
\* condition of line 221 true and is in sendByte(ACK, port) before the write
InitTrip ==
  /\ payload \in {<<3>>, <<2, 3>>}
  /\ numBytes = Len(payload)
  /\ maxDataLength \in FrameRoom
  /\ baud = BAUDRATE
  /\ attempt = 0
  /\ pc = [n \in Node |-> IF n = Sender THEN "sendByte" ELSE "awaitResponse"]
  /\ enable = [n \in Node |-> IF n = Sender THEN SEND_MODE ELSE RECEIVE_MODE]
  /\ rx = [n \in Node |-> <<>>]
  /\ written = [n \in Node |-> BuildFrame(payload, numBytes)]
  /\ switched = [n \in Node |-> TRUE]
  /\ heard = [n \in Node |-> NumDataBytes(numBytes)]
  /\ sendBuf = [n \in Node |->
                  IF n = Sender THEN <<ACK>> ELSE BuildFrame(payload, numBytes)]
  /\ idx = [n \in Node |-> NumDataBytes(numBytes)]
  /\ buf = [n \in Node |-> BuildFrame(payload, numBytes)]
  /\ count = [n \in Node |-> NumDataBytes(numBytes)]
  /\ overrun = [n \in Node |-> FALSE]
  /\ timeOut = [n \in Node |-> 0]
  /\ result = [n \in Node |-> FALSE]
  /\ data = [k \in 1..maxDataLength |-> 0]
  /\ now = 0
  /\ noise = 0
  /\ dropped = FALSE
  /\ fellOff = FALSE

\* the steps of Next that the exchange can take from there
NextTrip ==
  \/ sendByteWrite
  \/ sendDataReturn
  \/ receiveDataCall
  \/ receiveDataResponse
  \/ loopRepoll
  \/ readBufferRead(Receiver)
  \/ Tick

SpecTrip == InitTrip /\ [][NextTrip]_vars

\* ---------------------------------------------------- verifyData alone
\* the frame a with the data byte of its i-th pair set to v
WithDataByte(a, i, v) == [a EXCEPT ![2 * i] = v]

\* verifyData called on its own with data1 = the frame of a payload,
\* data2 = that frame with one data byte set to any value, and
\* numDataBytes = the length of the frame; sendBuf holds data1 and buf data2
InitVerify ==
  /\ payload \in SeqsUpTo(PayloadVals, MaxLen + 1)
  /\ numBytes = Len(payload)
  /\ maxDataLength \in FrameRoom
  /\ baud = BAUDRATE
  /\ attempt = 0
  /\ pc = [n \in Node |-> IF n = Sender THEN "verify" ELSE "ret"]
  /\ enable = [n \in Node |-> RECEIVE_MODE]
  /\ rx = [n \in Node |-> <<>>]
  /\ written = [n \in Node |-> <<>>]
  /\ switched = [n \in Node |-> FALSE]
  /\ heard = [n \in Node |-> 0]
  /\ sendBuf = [n \in Node |->
                  IF n = Sender THEN BuildFrame(payload, numBytes) ELSE <<>>]
  /\ idx = [n \in Node |-> 0]
  /\ \E i \in 1..numBytes, v \in Byte :
        buf = [n \in Node |->
                 IF n = Sender
                   THEN WithDataByte(BuildFrame(payload, numBytes), i, v)
                   ELSE <<>>]
  /\ count = [n \in Node |-> 0]
  /\ overrun = [n \in Node |-> FALSE]
  /\ timeOut = [n \in Node |-> 0]
  /\ result = [n \in Node |-> FALSE]
  /\ data = [k \in 1..maxDataLength |-> 0]
  /\ now = 0
  /\ noise = 0
  /\ dropped = FALSE
  /\ fellOff = FALSE

\* verifyData(data1, data2, numDataBytes) and its return value
verifyDataCall ==
  /\ pc[Sender] = "verify"
  /\ result' = [result EXCEPT ![Sender] =
                  verifyData(sendBuf[Sender], buf[Sender],
                             NumDataBytes(numBytes))]
  /\ pc' = [pc EXCEPT ![Sender] = "ret"]
  /\ UNCHANGED <<argVars, ioVars, enable, switched, sendBuf, idx, buf, count,
                 overrun, timeOut, data, now, fellOff>>

SpecVerify == InitVerify /\ [][verifyDataCall]_vars

\* ------------------------------------------------------------ the claims
\* the frame of section 3 of the specification for the data array d:
\* START, every byte followed by its 8-bit complement, END, END
Pairs(d, i) ==
  [k \in 1..(2 * i) |-> IF k % 2 = 1 THEN d[(k + 1) \div 2]
                         ELSE 255 - d[k \div 2]]
WireFrame(d) == <<START>> \o Pairs(d, Len(d)) \o <<END, END>>

Returned(n) == pc[n] = "ret"
ValidLength == 1 <= numBytes /\ numBytes <= MAXBYTES
\* the sender wrote ACK after its frame
AckWritten ==
  /\ Len(written[Sender]) > NumDataBytes(numBytes)
  /\ written[Sender][Len(written[Sender])] = ACK
\* the sender wrote nothing after its frame
OnlyFrameWritten == Len(written[Sender]) = NumDataBytes(numBytes)
\* every value checkPortHasData gave was one its return statement gave
Defined == ~fellOff

\* C1: whenever receiveData returns true, data[1..data[0]] is the payload
\* that was passed to sendData: same length, same bytes, same order.
C1_EndToEndIntegrity ==
  (Returned(Receiver) /\ result[Receiver] /\ Defined)
    => /\ data[1] = Len(payload)
       /\ SubSeq(data, 2, Len(payload) + 1) = payload

\* C2: sendData returns true if and only if the echo it read back is the
\* frame it transmitted, byte for byte; for any other echo it returns false
\* and writes no ACK.
C2_TrueIffExactEcho ==
  (Returned(Sender) /\ ValidLength /\ Defined)
    => /\ result[Sender] <=> (buf[Sender] = BuildFrame(payload, numBytes))
       /\ (buf[Sender] # BuildFrame(payload, numBytes)) => ~AckWritten

\* C3: over a channel that delivers every written byte unchanged, with the
\* peer polling receiveData and no wait running out of time, sendData
\* returns true having written ACK, and receiveData returns true with
\* data = [len(p), p[0], ..., p[len(p)-1]].
C3_CleanDelivery ==
  (Returned(Sender) /\ ValidLength /\ Defined
     /\ noise = 0 /\ ~dropped /\ now = 0)
    => /\ result[Sender]
       /\ AckWritten
       /\ Returned(Receiver)
            => /\ result[Receiver]
               /\ data[1] = Len(payload)
               /\ SubSeq(data, 2, Len(payload) + 1) = payload

\* C4: every invocation of sendData and of receiveData returns: a node that
\* has not returned can take a step, or another step of the exchange is still
\* to come.
C4_BoundedBlocking ==
  Defined => ((\A n \in Node : Returned(n)) \/ ENABLED Next)

\* C5: sendData called with numBytes outside 1..MAXBYTES returns false
\* without putting the line in send mode and without writing a byte.
C5_InvalidLengthRejected ==
  (~ValidLength /\ Defined)
    => /\ ~switched[Sender]
       /\ written[Sender] = <<>>
       /\ Returned(Sender) => ~result[Sender]

\* C6: when no byte ever arrives at its port, receiveData returns false at
\* its first poll and writes nothing, and sendData returns false once the
\* timeout budget has elapsed, not earlier, having written only its frame.
C6_SilentBus ==
  /\ heard[Receiver] = 0
       => /\ pc[Receiver] \in {"call", "ret"}
          /\ written[Receiver] = <<>>
          /\ Returned(Receiver) => ~result[Receiver]
  /\ (heard[Sender] = 0 /\ Returned(Sender) /\ ValidLength)
       => /\ ~result[Sender]
          /\ now >= timeOut[Sender] + sendReceiveTimeout
          /\ OnlyFrameWritten

\* C7: a node's enable line is in send mode only inside sendBuffer or
\* sendByte; at every return and whenever the node polls or reads its port
\* the line is in receive mode.
C7_DirectionDiscipline ==
  \A n \in Node :
    /\ enable[n] = SEND_MODE => pc[n] \in {"sendBuffer", "sendByte"}
    /\ pc[n] \in {"call", "awaitEcho", "readBuffer", "ackDelay", "delay",
                  "awaitResponse", "ret"}
         => enable[n] = RECEIVE_MODE

\* both nodes have sent and have returned with their lines in receive mode
C7_Witness ==
  /\ \A n \in Node : Returned(n) /\ switched[n] /\ enable[n] = RECEIVE_MODE
  /\ result[Sender]
  /\ result[Receiver]

\* C8: for a payload of n bytes, 1 <= n <= MAXBYTES, what sendData has
\* written when it starts to wait for the echo is the 2n+3 bytes START,
\* d[0], ~d[0], ..., d[n-1], ~d[n-1], END, END.
C8_WireFormat ==
  (pc[Sender] = "awaitEcho" /\ ValidLength)
    => /\ Len(written[Sender]) = (2 * numBytes) + 3
       /\ written[Sender] = WireFrame(payload)

\* sendData waits for the echo of the frame of the last pass of the for loop
C8_Witness ==
  /\ pc[Sender] = "awaitEcho"
  /\ attempt = MaxAttempts - 1
  /\ numBytes = MaxAttempts
  /\ Len(written[Sender]) = (2 * MaxAttempts) + 3

\* the step takes a byte from the receiver's port
Reads == Len(rx'[Receiver]) < Len(rx[Receiver])

\* readBuffer gave receiveData exactly the 2n+3 bytes of the frame of the
\* payload
WholeFrame ==
  /\ ValidLength
  /\ count[Receiver] = (2 * numBytes) + 3
  /\ buf[Receiver] = WireFrame(payload)

\* C9: when receiveData has accumulated exactly the 2n+3 bytes of the frame
\* built from p and then reads ACK, that step returns true with data[0] = n
\* and data[1..n] = p[0..n-1] in order; and whenever it has returned true on
\* that frame, data holds n and p.
C9_RoundTrip ==
  /\ [][(pc[Receiver] = "awaitResponse" /\ WholeFrame
           /\ Reads /\ Head(rx[Receiver]) = ACK)
          => /\ pc'[Receiver] = "ret"
             /\ result'[Receiver]
             /\ data'[1] = numBytes
             /\ \A i \in 1..numBytes : data'[i + 1] = payload[i]]_vars
  /\ []((Returned(Receiver) /\ result[Receiver] /\ WholeFrame)
          => /\ data[1] = numBytes
             /\ \A i \in 1..numBytes : data[i + 1] = payload[i])

\* receiveData has returned true on the whole frame of a payload of two
\* different bytes
C9_Witness ==
  /\ Returned(Receiver)
  /\ result[Receiver]
  /\ WholeFrame
  /\ numBytes > 1
  /\ payload[1] # payload[2]
  /\ data[1] = numBytes

\* C10: when receiveData returns true, data[0] is the number of payload
\* bytes delivered plus one (the size of the array, the size element
\* included).
C10_SizeIncludesItself ==
  (Returned(Receiver) /\ result[Receiver])
    => data[1] = ((count[Receiver] - 3) \div 2) + 1

\* the last k bytes the node has written
LastWritten(n, k) ==
  SubSeq(written[n], (Len(written[n]) - k) + 1, Len(written[n]))

\* the bytes readBuffer accumulated for the receiver start with START and end
\* with END, END
Framed(n) ==
  /\ count[n] > 1
  /\ buf[n][1] = START
  /\ buf[n][count[n] - 1] = END
  /\ buf[n][count[n]] = END

\* C11: every byte receiveData writes is the next of the count bytes
\* readBuffer accumulated, in order and unchanged, whether or not the pairs
\* in them are consistent; once the echo is written it is those count bytes;
\* and receiveData writes only when the accumulated bytes passed the framing
\* check (count > 0).
C11_VerbatimEcho ==
  /\ [](pc[Receiver] \in {"delay", "awaitResponse"}
          => /\ Framed(Receiver)
             /\ Len(buf[Receiver]) = count[Receiver]
             /\ Len(written[Receiver]) >= count[Receiver]
             /\ LastWritten(Receiver, count[Receiver]) = buf[Receiver])
  /\ [][written'[Receiver] # written[Receiver]
          => /\ pc[Receiver] = "sendBuffer"
             /\ Framed(Receiver)
             /\ idx[Receiver] < count[Receiver]
             /\ written'[Receiver] =
                  Append(written[Receiver], buf[Receiver][idx[Receiver] + 1])]_vars

\* the receiver has echoed, whole, a frame whose first pair is not a byte and
\* its complement
C11_Witness ==
  /\ pc[Receiver] = "awaitResponse"
  /\ count[Receiver] = (2 * MaxLen) + 3
  /\ buf[Receiver][3] # 255 - buf[Receiver][2]
  /\ LastWritten(Receiver, count[Receiver]) = buf[Receiver]

\* bytes were available to the sender's readBuffer, and it returned 0
EchoUnreadable == buf[Sender] # <<>> /\ count[Sender] = 0

\* the sender wrote NAK, and nothing else, after its frame
NakWritten ==
  /\ Len(written[Sender]) = NumDataBytes(numBytes) + 1
  /\ written[Sender][Len(written[Sender])] = NAK

\* C12 as stated: when bytes are available and the sender's read of the echo
\* yields count == 0, sendData returns false having written nothing after its
\* frame, neither ACK nor NAK.
C12_SilentOnZeroCount ==
  (Returned(Sender) /\ ValidLength /\ Defined /\ EchoUnreadable)
    => /\ ~result[Sender]
       /\ OnlyFrameWritten

\* C12 amended: when bytes are available and the sender's read of the echo
\* yields count == 0, sendData hands NAK to sendByte, and returns false having
\* written NAK, and only NAK, after its frame.
C12_NakOnZeroCount ==
  /\ (pc[Sender] = "sendByte" /\ EchoUnreadable) => sendBuf[Sender] = <<NAK>>
  /\ (Returned(Sender) /\ EchoUnreadable)
       => /\ ~result[Sender]
          /\ NakWritten

\* sendData has returned after an echo whose first byte was not START
C12_Witness ==
  /\ Returned(Sender)
  /\ Defined
  /\ EchoUnreadable
  /\ buf[Sender][1] # START
  /\ NakWritten

\* C13: while receiveData waits for the response after its echo, it reads
\* only within the timeout budget; a byte of value zero is skipped and the
\* polling goes on; the first nonzero byte read ends the call, with true if
\* and only if it is ACK (so with false for NAK and for every other nonzero
\* value); and the call ends without a read only when the budget has run out,
\* with false.
C13_ResponseHandling ==
  [][(pc[Receiver] = "awaitResponse" /\ (Reads \/ pc'[Receiver] # "awaitResponse"))
       => /\ Reads => InTime(Receiver)
          /\ (Reads /\ Head(rx[Receiver]) = 0) => pc'[Receiver] = "awaitResponse"
          /\ (Reads /\ Head(rx[Receiver]) # 0) => pc'[Receiver] = "ret"
          /\ pc'[Receiver] = "ret"
               => (result'[Receiver] <=> (Reads /\ Head(rx[Receiver]) = ACK))
          /\ (~Reads) => (~InTime(Receiver) /\ pc'[Receiver] = "ret")]_vars

\* the sender's ACK arrived as a zero: the receiver has taken it from its
\* port and still waits
C13_Witness ==
  /\ pc[Receiver] = "awaitResponse"
  /\ Defined
  /\ ~dropped
  /\ Returned(Sender)
  /\ AckWritten
  /\ heard[Receiver] = Len(written[Sender])
  /\ rx[Receiver] = <<>>

\* b is a but for one data byte (C index 1, 3, ..), which holds another value
OneDataByteAltered(a, b) ==
  /\ Len(a) = Len(b)
  /\ \E k \in 2..(Len(a) - 2) :
        /\ k % 2 = 0
        /\ b[k] # a[k]
        /\ \A j \in 1..Len(a) : j # k => b[j] = a[j]

\* C14: for a well-formed frame a of length 2n+3 and a frame b that is a but
\* for one data byte holding a different value, its inverse unchanged,
\* verifyData(a, b, 2n+3) returns false.
C14_SingleByteDetected ==
  (Returned(Sender)
     /\ sendBuf[Sender] = WireFrame(payload)
     /\ OneDataByteAltered(sendBuf[Sender], buf[Sender]))
    => ~result[Sender]

\* the node's readBuffer has returned, having stored at least one byte
HasRead(n) ==
  /\ pc[n] \in {"sendBuffer", "sendByte", "ackDelay", "delay", "awaitResponse",
                "ret"}
  /\ buf[n] # <<>>

\* b starts with START and ends with END, END
WellFramed(b) ==
  /\ Len(b) > 1
  /\ b[1] = START
  /\ b[Len(b) - 1] = END
  /\ b[Len(b)] = END

\* C15: readBuffer returns 0 whenever the bytes it accumulated do not start
\* with START or do not end with END, END, whatever the other bytes are and
\* also when it stopped at the buffer limit without having seen END, END.
C15_FramingRejection ==
  \A n \in Node :
    (HasRead(n) /\ ~WellFramed(buf[n])) => count[n] = 0

\* receiveData has returned after readBuffer stopped at the buffer limit with
\* the bytes starting with START and no END, END at their end
C15_Witness ==
  /\ Returned(Receiver)
  /\ Defined
  /\ Len(buf[Receiver]) = maxDataLength + 1
  /\ buf[Receiver][1] = START
  /\ ~WellFramed(buf[Receiver])
  /\ count[Receiver] = 0
  /\ ~result[Receiver]

\* C16: readBuffer stores at most maxDataLength bytes: no store goes to the
\* index maxDataLength of the caller's buffer, and the count it returns is at
\* most maxDataLength.
C16_BoundedAccumulation ==
  Defined
    => \A n \in Node :
         /\ ~overrun[n]
         /\ Len(buf[n]) <= BufLimit(n)
         /\ HasRead(n) => count[n] <= BufLimit(n)

\* the step is receiveData's return of true
ReturnsTrue ==
  /\ pc[Receiver] = "awaitResponse"
  /\ pc'[Receiver] = "ret"
  /\ result'[Receiver]

\* C17: receiveData changes data only in the step that returns true; that
\* step leaves every element above index data[0] as it was; and it reads
\* tempData only at indices below count.
C17_FrameEffect ==
  [][Defined
       => /\ (data' # data) => ReturnsTrue
          /\ ReturnsTrue
               => /\ \A k \in 1..Len(data) :
                       (k > data'[1] + 1) => data'[k] = data[k]
                  /\ Unstored(count[Receiver]) = {}]_vars

\* C18: receiveData returns true only when the count it received is 2n+3
\* for some n in 1..MAXBYTES: never for the 3-byte frame of an empty payload,
\* for a frame of even length, or for a frame of more than MAXBYTES data
\* bytes.
C18_OnlyWellFormedAccepted ==
  (Returned(Receiver) /\ result[Receiver] /\ Defined)
    => \E n \in 1..MAXBYTES : count[Receiver] = (2 * n) + 3

\* C19: in an exchange between a node running sendData and a node running
\* receiveData, under every interleaving of their steps, the two enable lines
\* are never in send mode at the same time.
C19_SingleTransmitter ==
  Defined => ~(enable[Sender] = SEND_MODE /\ enable[Receiver] = SEND_MODE)

\* sendData has returned from its wait without having read or written
\* anything after its frame
TimedOut ==
  /\ Returned(Sender)
  /\ ValidLength
  /\ OnlyFrameWritten
  /\ buf[Sender] = <<>>

\* C20: at every listed baud rate the budget (dataLength*3)*(100000/BAUDRATE)
\* is strictly positive, so that sendData's wait for the echo does not end
\* before the clock has moved (its loop runs at least once).
C20_UsableTimeout ==
  (baud \in BaudRates /\ Defined)
    => /\ Budget(baud) > 0
       /\ TimedOut => now > timeOut[Sender]
=============================================================================
